---- MODULE Spec2Model ----
(***************************************************************************)
(* Model of server.js: the Express handlers of the swipe leaderboard and   *)
(* the MongoDB collection `players` they read and write through Mongoose.  *)
(*                                                                         *)
(* Every `await` of a handler is a suspension point: the database call is  *)
(* one atomic step on the collection, and other requests run between two   *)
(* calls of the same handler.                                              *)
(*                                                                         *)
(* JavaScript numbers are kept as fixed-point integers with Scale units    *)
(* per 1, so that a level such as 2.5 is a value of the model (5).         *)
(* JavaScript strings are sequences of one-character strings.              *)
(***************************************************************************)
EXTENDS Integers, Sequences, FiniteSets, TLC

\* ---------------------------------------------------------------- bounds
MaxRequests == 3        \* submissions taken up, clients sending one at a time
MaxConcurrent == 2      \* submissions taken up, clients sending at any time
MaxFaulty == 2          \* submissions taken up, database calls failing
MaxInFlight == 2        \* handlers that may be suspended at the same time
MaxFaults == 1          \* database calls that fail in one behaviour
MaxAbove == 21          \* higher players the rank arithmetic is checked for
MaxDocs == 52           \* records of the collections the window is cut from
MaxPictured == 2        \* submissions taken up, pictures of every shape
MaxFramed == 1          \* submissions taken up, reads running alongside

\* ------------------------------------------------------ program constants
Scale == 2              \* fixed-point units per 1
MinLevel == 1
MaxLevel == 1000
MaxUsername == 50
DefaultLimit == 20
LimitCap == 50
Top20 == 20
DefaultGamesPlayed == 1

\* ------------------------------------------------------------ JSON values
Undefined == [t |-> "undefined", s |-> <<>>, v |-> 0]
Null == [t |-> "null", s |-> <<>>, v |-> 0]
Str(s) == [t |-> "string", s |-> s, v |-> 0]
\* the number n / Scale
Fixed(n) == [t |-> "number", s |-> <<>>, v |-> n]
Num(n) == Fixed(n * Scale)

\* JavaScript truthiness of a JSON value: `!x` is ~Truthy(x)
Truthy(x) ==
  CASE x.t = "undefined" -> FALSE
    [] x.t = "null" -> FALSE
    [] x.t = "number" -> x.v # 0
    [] x.t = "string" -> x.s # <<>>
    [] OTHER -> TRUE

\* a || b
Or(a, b) == IF Truthy(a) THEN a ELSE b

IsWhitespace(c) == c = " "

RECURSIVE TrimStart(_)
TrimStart(s) ==
  IF s # <<>> /\ IsWhitespace(Head(s)) THEN TrimStart(Tail(s)) ELSE s

RECURSIVE TrimEnd(_)
TrimEnd(s) ==
  IF s # <<>> /\ IsWhitespace(s[Len(s)])
  THEN TrimEnd(SubSeq(s, 1, Len(s) - 1))
  ELSE s

\* String.prototype.trim
Trim(s) == TrimEnd(TrimStart(s))

\* String.prototype.substring(0, n)
Substring0(s, n) == IF Len(s) <= n THEN s ELSE SubSeq(s, 1, n)

\* username.trim().substring(0, 50)
CleanUsername(s) == Substring0(Trim(s), MaxUsername)

Max(a, b) == IF a >= b THEN a ELSE b
Min(a, b) == IF a <= b THEN a ELSE b

\* ------------------------------------------------- the players collection
\* A document of the collection (PlayerSchema): username is a string,
\* level a fixed-point number, profilePicture Null or a string,
\* gamesPlayed an integer, lastUpdated a clock value.
Doc(u, l, p, g, d) ==
  [username |-> u, level |-> l, profilePicture |-> p,
   gamesPlayed |-> g, lastUpdated |-> d]

Indexes(coll) == 1 .. Len(coll)

Matching(coll, u) == {i \in Indexes(coll) : coll[i].username = u}

\* Player.findOne({ username: u }): <<>> is null, <<d>> the first match
FindOne(coll, u) ==
  IF Matching(coll, u) = {}
  THEN <<>>
  ELSE <<coll[CHOOSE i \in Matching(coll, u) :
                \A j \in Matching(coll, u) : i <= j]>>

\* Player.updateOne({ username: u }, upd): the first match gets upd's fields
UpdateOne(coll, u, upd) ==
  IF Matching(coll, u) = {}
  THEN coll
  ELSE LET k == CHOOSE i \in Matching(coll, u) :
                  \A j \in Matching(coll, u) : i <= j
       IN [coll EXCEPT ![k] =
             [f \in DOMAIN coll[k] |->
                IF f \in DOMAIN upd THEN upd[f] ELSE coll[k][f]]]

\* What Mongoose makes of the object given to Player.create: the `trim`
\* setter on username and the `default: null` of profilePicture.
Cast(d) ==
  Doc(Trim(d.username), d.level,
      IF d.profilePicture.t = "undefined" THEN Null ELSE d.profilePicture,
      d.gamesPlayed, d.lastUpdated)

\* The schema's validators, run by create (updateOne runs none).
SchemaValid(d) ==
  /\ d.username # <<>>
  /\ Len(d.username) <= MaxUsername
  /\ d.level >= MinLevel * Scale
  /\ d.level <= MaxLevel * Scale

\* a collection without the unique index
UniqueOkNoIndex(coll, d) == TRUE

\* The unique index on username.
UniqueOk(coll, d) == Matching(coll, d.username) = {}

\* Player.create(d): "ValidationError", "E11000" (duplicate key) or "ok"
CreateOutcome(coll, d) ==
  IF ~SchemaValid(Cast(d)) THEN "ValidationError"
  ELSE IF ~UniqueOk(coll, Cast(d)) THEN "E11000"
  ELSE "ok"

\* create as a replacement of the collection
CreateReplacing(coll, d) == <<Cast(d)>>

Create(coll, d) == Append(coll, Cast(d))

\* countDocuments with $gte in place of $gt
CountGte(coll, l) == Cardinality({i \in Indexes(coll) : coll[i].level >= l})

\* Player.countDocuments({ level: { $gt: l } })
CountGt(coll, l) == Cardinality({i \in Indexes(coll) : coll[i].level > l})

\* Player.countDocuments()
CountAll(coll) == Len(coll)

\* the sort with level ascending
LeaderboardOrderAscending(a, b) ==
  \/ a.level < b.level
  \/ a.level = b.level /\ a.lastUpdated <= b.lastUpdated

\* { level: -1, lastUpdated: 1 }: a may come before b
LeaderboardOrder(a, b) ==
  \/ a.level > b.level
  \/ a.level = b.level /\ a.lastUpdated <= b.lastUpdated

\* the sort of findOne with level ascending
LevelOrderAscending(a, b) == a.level <= b.level

\* { level: -1 }: a may come before b
LevelOrder(a, b) == a.level >= b.level

\* Player.find().sort({ level: -1, lastUpdated: 1 }): every order the sort
\* may return; documents with equal keys come in any order. The first
\* document is one that may precede all the others, and so on for the rest.
RECURSIVE SortedFrom(_, _)
SortedFrom(coll, left) ==
  IF left = {}
  THEN {<<>>}
  ELSE UNION {{<<coll[k]>> \o rest : rest \in SortedFrom(coll, left \ {k})} :
                k \in {i \in left :
                         \A j \in left : LeaderboardOrder(coll[i], coll[j])}}

FindSorted(coll) == SortedFrom(coll, Indexes(coll))

\* .limit(n): a negative n is taken by its absolute value, 0 is no limit
Limit(docs, n) ==
  LET k == IF n < 0 THEN 0 - n ELSE n
  IN IF k = 0 \/ Len(docs) <= k THEN docs ELSE SubSeq(docs, 1, k)

\* Player.findOne().sort({ level: -1 }): <<>> on an empty collection, else
\* any document no other document has to precede. Of the document, the
\* two fields the handler reads.
FindTop(coll) ==
  IF coll = <<>>
  THEN {<<>>}
  ELSE {<<[username |-> coll[i].username, level |-> coll[i].level]>> : i \in
          {k \in Indexes(coll) :
             \A j \in Indexes(coll) : LevelOrder(coll[k], coll[j])}}

RECURSIVE SumLevels(_)
SumLevels(coll) ==
  IF coll = <<>> THEN 0 ELSE Head(coll).level + SumLevels(Tail(coll))

\* ------------------------------------------------------------------ state
VARIABLES
  players,     \* the collection, in insertion order
  now,         \* Date.now(), in clock ticks
  req,         \* the handlers in progress: slot -> locals and position
  lastResp,    \* the response a handler is sending, NoResp if none
  started,     \* submissions that have passed the validation so far
  faults,      \* database calls that have failed so far
  serial,      \* TRUE when the clients send one request at a time
  budget,      \* the submissions the clients send in all
  submitted,   \* history: per identity, the highest level and the number of
               \* the submissions that passed the handler's validation, and
               \* which submission was first to bring the highest level
  accepted     \* history: the same over the submissions answered 200

vars ==
  <<players, now, req, lastResp, started, faults, serial, budget, submitted,
    accepted>>

Slots == 1 .. MaxInFlight

Idle == [op |-> "idle"]

NoResp == [op |-> "none", status |-> 0]

\* ----------------------------------------------------------------- inputs
UsernameInputs ==
  {Undefined, Str(<<>>), Str(<<" ">>), Str(<<"a">>), Str(<<" ", "a">>),
   Str(<<"b">>), Num(42)}

LevelInputs ==
  {Undefined, Num(0), Num(-1), Num(1), Num(2), Fixed(5), Num(1001),
   Str(<<"2">>)}

PictureInputs == {Undefined, Str(<<"p">>)}
\* and with the empty string, which is a string yet falsy
ImageInputs == PictureInputs \cup {Str(<<>>)}

\* the identities a record can have
Names == {<<"a">>, <<"b">>}

NoHistory == [n \in Names |-> [max |-> 0, n |-> 0, since |-> 0]]

\* the submissions taken up are numbered 1, 2, ... in the order of arrival
Number == started + 1

\* the history h with submission number k, of level l for identity u
Record(h, u, l, k) ==
  IF u \in Names
  THEN [h EXCEPT ![u] = [max |-> Max(@.max, l), n |-> @.n + 1,
                         since |-> IF l > @.max THEN k ELSE @.since]]
  ELSE h

AllIdle == \A r \in Slots : req[r] = Idle

\* no response is on its way: a response is sent before the next step
Quiet == lastResp = NoResp

\* a request may arrive: at any time, or once the one before is answered
CanStart == Quiet /\ (serial => AllIdle)

\* a request that awaits is kept in the first free handler slot
FreeSlot(r) ==
  /\ CanStart
  /\ req[r] = Idle
  /\ \A q \in Slots : q < r => req[q] # Idle

\* Two handlers that only read cannot affect one another: one of them at a
\* time is in progress, beside the submissions.
ReadSlot(r) ==
  /\ FreeSlot(r)
  /\ \A q \in Slots : req[q].op \in {"idle", "submit"}

\* a further submission may be taken up
CanSubmit == started < budget

\* new Date(): the same millisecond as the last reading, or a later one; 0 is
\* the time the process started, and every reading is later than that
Ticks == IF now = 0 THEN {1} ELSE {now, now + 1}

\* The collection holds player a, as the submission of level 1 taken at
\* tick 1 leaves it, and requests arrive at any time.
Init ==
  /\ players = <<Doc(<<"a">>, MinLevel * Scale, Null, 1, 1)>>
  /\ now = 1
  /\ req = [r \in Slots |-> Idle]
  /\ lastResp = NoResp
  /\ started = 0
  /\ faults = 0
  /\ serial = FALSE
  /\ budget = MaxConcurrent
  /\ submitted = [NoHistory EXCEPT
                    ![<<"a">>] = [max |-> MinLevel * Scale, n |-> 1, since |-> 0]]
  /\ accepted = submitted

\* The collection is empty, and a request arrives when the one before is
\* answered.
InitSerial ==
  /\ players = <<>>
  /\ now = 0
  /\ req = [r \in Slots |-> Idle]
  /\ lastResp = NoResp
  /\ started = 0
  /\ faults = 0
  /\ serial = TRUE
  /\ budget = MaxRequests
  /\ submitted = NoHistory
  /\ accepted = NoHistory

\* The same, before fewer submissions.
InitFaulty ==
  /\ players = <<>>
  /\ now = 0
  /\ req = [r \in Slots |-> Idle]
  /\ lastResp = NoResp
  /\ started = 0
  /\ faults = 0
  /\ serial = TRUE
  /\ budget = MaxFaulty
  /\ submitted = NoHistory
  /\ accepted = NoHistory

\* res.json(...): the response has been sent
Deliver ==
  /\ ~Quiet
  /\ lastResp' = NoResp
  /\ UNCHANGED <<players, now, req, started, faults, serial, budget, submitted,
                 accepted>>

\* ------------------------------------------- POST /api/leaderboard/update
\* The checks before the first await: "required" and "range" are answered
\* 400; "TypeError" is username.trim() on a value that is no string, thrown
\* inside the try block.
Validate(username, level) ==
  IF ~Truthy(username) \/ ~Truthy(level) THEN "required"
  ELSE IF level.t # "number" \/ level.v < MinLevel * Scale
          \/ level.v > MaxLevel * Scale THEN "range"
  ELSE IF username.t # "string" THEN "TypeError"
  ELSE "ok"

\* What the data model asks of a submission, kept with the response for the
\* properties below: the level is an integer in [1,1000], the identity is a
\* string that is not empty once trimmed.
LevelIsValid(level) ==
  /\ level.t = "number"
  /\ level.v % Scale = 0
  /\ level.v >= MinLevel * Scale
  /\ level.v <= MaxLevel * Scale

IdentityIsValid(username) ==
  username.t = "string" /\ Trim(username.s) # <<>>

Body(username, level, picture) ==
  [identityOk |-> IdentityIsValid(username), levelOk |-> LevelIsValid(level)]

\* res.status(400).json(...)
Resp400(body, error) ==
  [op |-> "submit", status |-> 400, success |-> FALSE, error |-> error,
   body |-> body, applied |-> FALSE]

\* the catch block
Resp500(body, applied) ==
  [op |-> "submit", status |-> 500, success |-> FALSE,
   error |-> "Failed to update score", body |-> body, applied |-> applied]

\* existingPlayer.gamesPlayed || 0
GamesPlayedOr0(d) == IF d.gamesPlayed # 0 THEN d.gamesPlayed ELSE 0

\* UpdateFor with the level written whatever it is (last writer wins).
UpdateForLastWriter(existing, level, picture, date) ==
  [level |-> level,
   profilePicture |-> Or(picture, existing.profilePicture),
   gamesPlayed |-> GamesPlayedOr0(existing) + 1,
   lastUpdated |-> date]

\* UpdateFor with the play counted only when the level rises.
UpdateForRecordsOnly(existing, level, picture, date) ==
  IF level > existing.level
  THEN [level |-> level,
        profilePicture |-> Or(picture, existing.profilePicture),
        gamesPlayed |-> GamesPlayedOr0(existing) + 1,
        lastUpdated |-> date]
  ELSE [profilePicture |-> Or(picture, existing.profilePicture),
        lastUpdated |-> date]

\* UpdateFor with every supplied picture stored, the empty one too.
UpdateForAnyPicture(existing, level, picture, date) ==
  LET stored == IF picture.t = "undefined" THEN existing.profilePicture
                ELSE picture
  IN IF level > existing.level
     THEN [level |-> level,
           profilePicture |-> stored,
           gamesPlayed |-> GamesPlayedOr0(existing) + 1,
           lastUpdated |-> date]
     ELSE [profilePicture |-> stored,
           gamesPlayed |-> GamesPlayedOr0(existing) + 1,
           lastUpdated |-> date]

\* The object given to updateOne for an existing player: with the level when
\* the submitted level is higher, without it otherwise.
UpdateFor(existing, level, picture, date) ==
  IF level > existing.level
  THEN [level |-> level,
        profilePicture |-> Or(picture, existing.profilePicture),
        gamesPlayed |-> GamesPlayedOr0(existing) + 1,
        lastUpdated |-> date]
  ELSE [profilePicture |-> Or(picture, existing.profilePicture),
        gamesPlayed |-> GamesPlayedOr0(existing) + 1,
        lastUpdated |-> date]

\* The object given to create for a new player.
NewPlayer(username, level, picture, date) ==
  Doc(username, level, picture, 1, date)

\* The request is answered 400 by the validation.
SubmitInvalid(u, l, p) ==
  /\ CanStart
  /\ Validate(u, l) \in {"required", "range"}
  /\ lastResp' =
       Resp400(Body(u, l, p),
               IF Validate(u, l) = "required"
               THEN "Username and level are required"
               ELSE "Level must be a number between 1 and 1000")
  /\ UNCHANGED <<players, now, req, started, faults, serial, budget, submitted, accepted>>

\* username.trim is not a function
SubmitThrows(u, l, p) ==
  /\ CanStart
  /\ Validate(u, l) = "TypeError"
  /\ lastResp' = Resp500(Body(u, l, p), FALSE)
  /\ UNCHANGED <<players, now, req, started, faults, serial, budget, submitted, accepted>>

\* The request passes the validation and findOne reads the collection.
SubmitFindOne(r, u, l, p) ==
  /\ FreeSlot(r)
  /\ CanSubmit
  /\ Validate(u, l) = "ok"
  /\ req' = [req EXCEPT ![r] =
       [op |-> "submit", pc |-> "found", body |-> Body(u, l, p),
        number |-> Number,
        cleanUsername |-> CleanUsername(u.s), level |-> l.v,
        profilePicture |-> p,
        existingPlayer |-> FindOne(players, CleanUsername(u.s)),
        write |-> <<>>, applied |-> FALSE]]
  /\ started' = started + 1
  /\ submitted' = Record(submitted, CleanUsername(u.s), l.v, 0)
  /\ lastResp' = NoResp
  /\ UNCHANGED <<players, now, faults, serial, budget, accepted>>

\* findOne rejects
SubmitFindOneFails(u, l, p) ==
  /\ CanStart
  /\ CanSubmit
  /\ Validate(u, l) = "ok"
  /\ faults < MaxFaults
  /\ faults' = faults + 1
  /\ lastResp' = Resp500(Body(u, l, p), FALSE)
  /\ started' = started + 1
  /\ submitted' = Record(submitted, CleanUsername(u.s), l.v, 0)
  /\ UNCHANGED <<players, now, req, serial, budget, accepted>>

\* The handler resumes with findOne's result, reads the clock and issues the
\* write of its branch.
SubmitDecide(r) ==
  /\ Quiet
  /\ req[r].op = "submit" /\ req[r].pc = "found"
  /\ \E t \in Ticks :
       /\ now' = t
       /\ req' = [req EXCEPT ![r].pc = "write", ![r].write =
            IF req[r].existingPlayer # <<>>
            THEN <<UpdateFor(req[r].existingPlayer[1], req[r].level,
                             req[r].profilePicture, t)>>
            ELSE <<NewPlayer(req[r].cleanUsername, req[r].level,
                             req[r].profilePicture, t)>>]
  /\ lastResp' = NoResp
  /\ UNCHANGED <<players, started, faults, serial, budget, submitted, accepted>>

\* updateOne or create runs on the collection; a create that the schema or
\* the unique index refuses throws, and the catch block answers 500.
SubmitWrite(r) ==
  /\ Quiet
  /\ req[r].op = "submit" /\ req[r].pc = "write"
  /\ IF req[r].existingPlayer # <<>>
     THEN /\ players' = UpdateOne(players, req[r].cleanUsername, req[r].write[1])
          /\ req' = [req EXCEPT ![r].pc = "count", ![r].applied = TRUE]
          /\ lastResp' = NoResp
     ELSE IF CreateOutcome(players, req[r].write[1]) = "ok"
     THEN /\ players' = Create(players, req[r].write[1])
          /\ req' = [req EXCEPT ![r].pc = "count", ![r].applied = TRUE]
          /\ lastResp' = NoResp
     ELSE /\ lastResp' = Resp500(req[r].body, FALSE)
          /\ req' = [req EXCEPT ![r] = Idle]
          /\ UNCHANGED players
  /\ UNCHANGED <<now, started, faults, serial, budget, submitted, accepted>>

\* the write rejects
SubmitWriteFails(r) ==
  /\ Quiet
  /\ req[r].op = "submit" /\ req[r].pc = "write"
  /\ faults < MaxFaults
  /\ faults' = faults + 1
  /\ lastResp' = Resp500(req[r].body, FALSE)
  /\ req' = [req EXCEPT ![r] = Idle]
  /\ UNCHANGED <<players, now, started, serial, budget, submitted, accepted>>

\* The level the rank is counted against: the submitted level for a new
\* player and a new record, the level findOne returned otherwise.
RankLevel(q) ==
  IF q.existingPlayer # <<>> /\ ~(q.level > q.existingPlayer[1].level)
  THEN q.existingPlayer[1].level
  ELSE q.level

\* SubmitResponse reporting the new level as the previous best.
SubmitResponsePreviousIsNew(q, playersAbove) ==
  LET rank == playersAbove + 1 IN
  IF q.existingPlayer = <<>>
  THEN [op |-> "submit", status |-> 200, success |-> TRUE, newRecord |-> TRUE,
        body |-> q.body, applied |-> q.applied,
        data |-> [username |-> q.cleanUsername, level |-> q.level,
                  rank |-> rank, isInTop20 |-> rank <= Top20,
                  gamesPlayed |-> 1]]
  ELSE IF q.level > q.existingPlayer[1].level
  THEN [op |-> "submit", status |-> 200, success |-> TRUE, newRecord |-> TRUE,
        body |-> q.body, applied |-> q.applied,
        data |-> [username |-> q.cleanUsername, level |-> q.level,
                  previousBest |-> q.level,
                  newRank |-> rank, isInTop20 |-> rank <= Top20,
                  gamesPlayed |-> GamesPlayedOr0(q.existingPlayer[1]) + 1]]
  ELSE [op |-> "submit", status |-> 200, success |-> TRUE, newRecord |-> FALSE,
        body |-> q.body, applied |-> q.applied,
        data |-> [username |-> q.cleanUsername,
                  currentBest |-> q.existingPlayer[1].level,
                  submittedLevel |-> q.level,
                  currentRank |-> rank, isInTop20 |-> rank <= Top20,
                  gamesPlayed |-> GamesPlayedOr0(q.existingPlayer[1]) + 1]]

\* The 200 response of the three branches.
SubmitResponse(q, playersAbove) ==
  LET rank == playersAbove + 1 IN
  IF q.existingPlayer = <<>>
  THEN [op |-> "submit", status |-> 200, success |-> TRUE, newRecord |-> TRUE,
        body |-> q.body, applied |-> q.applied,
        data |-> [username |-> q.cleanUsername, level |-> q.level,
                  rank |-> rank, isInTop20 |-> rank <= Top20,
                  gamesPlayed |-> 1]]
  ELSE IF q.level > q.existingPlayer[1].level
  THEN [op |-> "submit", status |-> 200, success |-> TRUE, newRecord |-> TRUE,
        body |-> q.body, applied |-> q.applied,
        data |-> [username |-> q.cleanUsername, level |-> q.level,
                  previousBest |-> q.existingPlayer[1].level,
                  newRank |-> rank, isInTop20 |-> rank <= Top20,
                  gamesPlayed |-> GamesPlayedOr0(q.existingPlayer[1]) + 1]]
  ELSE [op |-> "submit", status |-> 200, success |-> TRUE, newRecord |-> FALSE,
        body |-> q.body, applied |-> q.applied,
        data |-> [username |-> q.cleanUsername,
                  currentBest |-> q.existingPlayer[1].level,
                  submittedLevel |-> q.level,
                  currentRank |-> rank, isInTop20 |-> rank <= Top20,
                  gamesPlayed |-> GamesPlayedOr0(q.existingPlayer[1]) + 1]]

\* countDocuments runs and the handler answers 200.
SubmitCount(r) ==
  /\ Quiet
  /\ req[r].op = "submit" /\ req[r].pc = "count"
  /\ lastResp' = SubmitResponse(req[r], CountGt(players, RankLevel(req[r])))
  /\ accepted' = Record(accepted, req[r].cleanUsername, req[r].level, req[r].number)
  /\ req' = [req EXCEPT ![r] = Idle]
  /\ UNCHANGED <<players, now, started, faults, serial, budget, submitted>>

\* countDocuments rejects after the write: the catch block answers 500.
SubmitCountFails(r) ==
  /\ Quiet
  /\ req[r].op = "submit" /\ req[r].pc = "count"
  /\ faults < MaxFaults
  /\ faults' = faults + 1
  /\ lastResp' = Resp500(req[r].body, req[r].applied)
  /\ req' = [req EXCEPT ![r] = Idle]
  /\ UNCHANGED <<players, now, started, serial, budget, submitted, accepted>>

\* ------------------------------------------------- GET /api/leaderboard
IsDigit(c) == c \in {"0", "1", "2", "3", "4", "5", "6", "7", "8", "9"}

DigitValue(c) ==
  CASE c = "0" -> 0 [] c = "1" -> 1 [] c = "2" -> 2 [] c = "3" -> 3
    [] c = "4" -> 4 [] c = "5" -> 5 [] c = "6" -> 6 [] c = "7" -> 7
    [] c = "8" -> 8 [] c = "9" -> 9

\* the value of the digits s starts with, continuing the value acc
RECURSIVE LeadingDigits(_, _)
LeadingDigits(s, acc) ==
  IF s # <<>> /\ IsDigit(Head(s))
  THEN LeadingDigits(Tail(s), 10 * acc + DigitValue(Head(s)))
  ELSE acc

\* parseInt(x): white space, a sign, then digits; NaN when no digit follows
ParseInt(x) ==
  IF x.t # "string" THEN [nan |-> TRUE, n |-> 0]
  ELSE LET t == TrimStart(x.s)
           neg == t # <<>> /\ Head(t) = "-"
           u == IF t # <<>> /\ Head(t) \in {"-", "+"} THEN Tail(t) ELSE t
       IN IF u = <<>> \/ ~IsDigit(Head(u))
          THEN [nan |-> TRUE, n |-> 0]
          ELSE [nan |-> FALSE,
                n |-> IF neg THEN 0 - LeadingDigits(u, 0)
                      ELSE LeadingDigits(u, 0)]

\* Math.min(parseInt(req.query.limit) || 20, 50)
EffectiveLimit(x) ==
  LET i == ParseInt(x)
  IN Min(IF i.nan \/ i.n = 0 THEN DefaultLimit ELSE i.n, LimitCap)

DefaultAvatar == Str(<<"d">>)

\* players.map((player, index) => ...)
Entry(d, index) ==
  [rank |-> index + 1, username |-> d.username, level |-> d.level,
   gamesPlayed |-> IF d.gamesPlayed # 0 THEN d.gamesPlayed
                   ELSE DefaultGamesPlayed,
   lastUpdated |-> d.lastUpdated,
   avatar |-> Or(d.profilePicture, DefaultAvatar)]

LeaderboardResponse(docs) ==
  [op |-> "leaderboard", status |-> 200, success |-> TRUE,
   data |-> [i \in 1 .. Len(docs) |-> Entry(docs[i], i - 1)],
   total |-> Len(docs)]

ReadFailed(op) == [op |-> op, status |-> 500, success |-> FALSE]

\* find().sort().limit() runs and the handler answers.
GetLeaderboard(x) ==
  /\ CanStart
  /\ \E docs \in FindSorted(players) :
       lastResp' = LeaderboardResponse(Limit(docs, EffectiveLimit(x)))
  /\ UNCHANGED <<players, now, req, started, faults, serial, budget, submitted, accepted>>

\* the query rejects
GetLeaderboardFails ==
  /\ CanStart
  /\ faults < MaxFaults
  /\ faults' = faults + 1
  /\ lastResp' = ReadFailed("leaderboard")
  /\ UNCHANGED <<players, now, req, started, serial, budget, submitted, accepted>>

\* ---------------------------------------------- GET /api/player/:username
PlayerResponse(d, playersAbove) ==
  [op |-> "player", status |-> 200, success |-> TRUE, found |-> TRUE,
   data |-> [username |-> d.username, level |-> d.level,
             rank |-> <<playersAbove + 1>>,
             isInTop20 |-> playersAbove + 1 <= Top20,
             profilePicture |-> d.profilePicture,
             gamesPlayed |-> IF d.gamesPlayed # 0 THEN d.gamesPlayed
                             ELSE DefaultGamesPlayed,
             lastPlayed |-> d.lastUpdated]]

\* PlayerNotFound answering as if the player were ranked first
PlayerNotFoundRanked(u) ==
  [op |-> "player", status |-> 200, success |-> TRUE, found |-> FALSE,
   data |-> [username |-> u, level |-> 0, rank |-> <<1>>,
             isInTop20 |-> TRUE, profilePicture |-> Null,
             gamesPlayed |-> 0]]

\* rank: null is the empty sequence
PlayerNotFound(u) ==
  [op |-> "player", status |-> 200, success |-> TRUE, found |-> FALSE,
   data |-> [username |-> u, level |-> 0, rank |-> <<>>,
             isInTop20 |-> FALSE, profilePicture |-> Null,
             gamesPlayed |-> 0]]

\* findOne runs; an unknown player is answered at once.
PlayerFindOne(r, u) ==
  /\ ReadSlot(r)
  /\ IF FindOne(players, Trim(u)) = <<>>
     THEN /\ lastResp' = PlayerNotFound(Trim(u))
          /\ UNCHANGED req
     ELSE /\ lastResp' = NoResp
          /\ req' = [req EXCEPT ![r] =
               [op |-> "player", pc |-> "count",
                player |-> FindOne(players, Trim(u))[1]]]
  /\ UNCHANGED <<players, now, started, faults, serial, budget, submitted, accepted>>

\* countDocuments runs and the handler answers.
PlayerCount(r) ==
  /\ Quiet
  /\ req[r].op = "player" /\ req[r].pc = "count"
  /\ lastResp' =
       PlayerResponse(req[r].player, CountGt(players, req[r].player.level))
  /\ req' = [req EXCEPT ![r] = Idle]
  /\ UNCHANGED <<players, now, started, faults, serial, budget, submitted, accepted>>

\* findOne or countDocuments rejects
PlayerFails(r) ==
  /\ Quiet
  /\ \/ ReadSlot(r)
     \/ req[r].op = "player" /\ req[r].pc = "count"
  /\ faults < MaxFaults
  /\ faults' = faults + 1
  /\ lastResp' = ReadFailed("player")
  /\ req' = [req EXCEPT ![r] = Idle]
  /\ UNCHANGED <<players, now, started, serial, budget, submitted, accepted>>

\* ------------------------------------------------------- GET /api/stats
\* The queries whose results the response uses. The fourth of the handler,
\* top20Count, is not used: all it can do is reject, which is StatsFails.
StatsQueries == {"totalPlayers", "topPlayer", "avgLevelResult"}

\* Math.round(avg * 10) / 10 of the average sum / (Scale * n), in tenths
RoundedAverage(sum, n) == (20 * sum + Scale * n) \div (2 * Scale * n)

StatsResponse(q) ==
  [op |-> "stats", status |-> 200, success |-> TRUE,
   data |-> [totalPlayers |-> q.totalPlayers,
             highestLevel |-> IF q.topPlayer # <<>> THEN q.topPlayer[1].level
                              ELSE 0,
             topPlayer |-> IF q.topPlayer # <<>>
                           THEN Str(q.topPlayer[1].username) ELSE Null,
             averageLevel |-> IF q.avgLevelResult # <<>>
                              THEN RoundedAverage(q.avgLevelResult[1].sum,
                                                  q.avgLevelResult[1].n)
                              ELSE 0,
             competitorsInTop20 |-> Min(q.totalPlayers, Top20)]]

\* The handler issues its queries at once (Promise.all).
StatsStart(r) ==
  /\ ReadSlot(r)
  /\ req' = [req EXCEPT ![r] =
       [op |-> "stats", pending |-> StatsQueries, totalPlayers |-> 0,
        topPlayer |-> <<>>, avgLevelResult |-> <<>>]]
  /\ lastResp' = NoResp
  /\ UNCHANGED <<players, now, started, faults, serial, budget, submitted, accepted>>

\* what the locals are once query k has run on the collection
StatsAfter(q, k) ==
  {[q EXCEPT
      !.pending = @ \ {k},
      !.totalPlayers = IF k = "totalPlayers" THEN CountAll(players) ELSE @,
      !.topPlayer = IF k = "topPlayer" THEN top ELSE @,
      !.avgLevelResult =
        IF k = "avgLevelResult" /\ players # <<>>
        THEN <<[sum |-> SumLevels(players), n |-> Len(players)]>>
        ELSE @] :
     top \in IF k = "topPlayer" THEN FindTop(players) ELSE {q.topPlayer}}

\* One of the queries runs; the handler answers after the last.
StatsQuery(r, k) ==
  /\ Quiet
  /\ req[r].op = "stats" /\ k \in req[r].pending
  /\ \E q \in StatsAfter(req[r], k) :
       IF q.pending = {}
       THEN /\ lastResp' = StatsResponse(q)
            /\ req' = [req EXCEPT ![r] = Idle]
       ELSE /\ lastResp' = NoResp
            /\ req' = [req EXCEPT ![r] = q]
  /\ UNCHANGED <<players, now, started, faults, serial, budget, submitted, accepted>>

\* one of the queries rejects, and Promise.all with it
StatsFails(r) ==
  /\ Quiet
  /\ req[r].op = "stats"
  /\ faults < MaxFaults
  /\ faults' = faults + 1
  /\ lastResp' = ReadFailed("stats")
  /\ req' = [req EXCEPT ![r] = Idle]
  /\ UNCHANGED <<players, now, started, serial, budget, submitted, accepted>>

LimitInputs ==
  {Undefined, Str(<<"1">>), Str(<<"2">>), Str(<<"5">>), Str(<<"0">>),
   Str(<<"-", "1">>), Str(<<"-", "6", "0">>), Str(<<"9", "9">>),
   Str(<<"x">>)}

PlayerInputs == {<<"a">>, <<"b">>, <<" ", "a">>}

ReadSteps ==
  \/ \E r \in Slots, u \in PlayerInputs : PlayerFindOne(r, u)
  \/ \E r \in Slots : PlayerCount(r)
  \/ \E r \in Slots : StatsStart(r)
  \/ \E r \in Slots, k \in StatsQueries : StatsQuery(r, k)

ReadFaults ==
  \/ GetLeaderboardFails
  \/ \E r \in Slots : PlayerFails(r)
  \/ \E r \in Slots : StatsFails(r)

\* ------------------------------------------------------ the two systems
\* submissions answered before the first await
SubmitRejects ==
  \E u \in UsernameInputs, l \in LevelInputs :
    \/ SubmitInvalid(u, l, Undefined)
    \/ SubmitThrows(u, l, Undefined)

SubmitStepsWith(pictures) ==
  \/ \E r \in Slots, u \in UsernameInputs, l \in LevelInputs,
         p \in pictures : SubmitFindOne(r, u, l, p)
  \/ \E r \in Slots :
       \/ SubmitDecide(r)
       \/ SubmitWrite(r)
       \/ SubmitCount(r)

SubmitSteps == SubmitStepsWith(PictureInputs)

SubmitFaults ==
  \/ \E u \in UsernameInputs, l \in LevelInputs :
       SubmitFindOneFails(u, l, Undefined)
  \/ \E r \in Slots :
       \/ SubmitWriteFails(r)
       \/ SubmitCountFails(r)

\* the handlers that take several steps, on a database that answers
NextAwaiting == SubmitSteps \/ ReadSteps \/ Deliver

\* and those that take one
NextReliable ==
  \/ NextAwaiting
  \/ SubmitRejects
  \/ \E x \in LimitInputs : GetLeaderboard(x)

\* database calls may fail
Next == NextReliable \/ SubmitFaults \/ ReadFaults

\* every handler on a database that answers, submissions without a picture
NextSerial ==
  \/ SubmitStepsWith({Undefined})
  \/ ReadSteps
  \/ Deliver
  \/ SubmitRejects
  \/ \E x \in LimitInputs : GetLeaderboard(x)

\* The collection after m players have each submitted once, every level
\* reached by two of them: player i is "u" followed by the two digits of i.
DigitChar(k) ==
  CHOOSE c \in {"0", "1", "2", "3", "4", "5", "6", "7", "8", "9"} :
    DigitValue(c) = k

Populated(m) ==
  [i \in 1 .. m |->
     Doc(<<"u", DigitChar(i \div 10), DigitChar(i % 10)>>,
         Scale * ((i + 1) \div 2), Null, 1, i)]

InitWindow ==
  /\ \E m \in 0 .. MaxDocs : players = Populated(m) /\ now = m
  /\ req = [r \in Slots |-> Idle]
  /\ lastResp = NoResp
  /\ started = 0
  /\ faults = 0
  /\ serial = TRUE
  /\ budget = 0
  /\ submitted = NoHistory
  /\ accepted = NoHistory

\* submissions alone, one at a time, with pictures of every shape
InitPictures ==
  /\ players = <<>>
  /\ now = 0
  /\ req = [r \in Slots |-> Idle]
  /\ lastResp = NoResp
  /\ started = 0
  /\ faults = 0
  /\ serial = TRUE
  /\ budget = MaxPictured
  /\ submitted = NoHistory
  /\ accepted = NoHistory

NextPictures == SubmitStepsWith(ImageInputs) \/ Deliver

\* submissions without a picture alone, arriving at any time
NextRace == SubmitStepsWith({Undefined}) \/ Deliver

\* The collection holds player a, and requests arrive at any time.
InitFrame ==
  /\ players = <<Doc(<<"a">>, MinLevel * Scale, Null, 1, 1)>>
  /\ now = 1
  /\ req = [r \in Slots |-> Idle]
  /\ lastResp = NoResp
  /\ started = 0
  /\ faults = 0
  /\ serial = FALSE
  /\ budget = MaxFramed
  /\ submitted = [NoHistory EXCEPT
                    ![<<"a">>] = [max |-> MinLevel * Scale, n |-> 1, since |-> 0]]
  /\ accepted = submitted

\* every handler, at any time; submissions without a picture, the
\* leaderboard without a limit
NextFrame ==
  \/ SubmitStepsWith({Undefined})
  \/ ReadSteps
  \/ GetLeaderboard(Undefined)
  \/ Deliver

\* the leaderboard alone
NextWindow ==
  \/ \E x \in LimitInputs : GetLeaderboard(x)
  \/ Deliver

\* Requests arrive at any time. A request answered in its first step reads
\* the collection at most once and writes nothing, whatever else is in
\* progress: those are left to the serial systems.
Spec == Init /\ [][NextAwaiting]_vars

\* one request at a time, submissions without a picture
SerialSpec == InitSerial /\ [][NextSerial]_vars

\* one request at a time, on a database whose calls may fail
FaultSpec == InitFaulty /\ [][Next]_vars

\* submissions with and without a picture, one at a time
PictureSpec == InitPictures /\ [][NextPictures]_vars

\* submissions racing each other, nothing else running
RaceSpec == Init /\ [][NextRace]_vars

\* reads and submissions interleaved
FrameSpec == InitFrame /\ [][NextFrame]_vars

\* leaderboard requests on collections of up to MaxDocs records
WindowSpec == InitWindow /\ [][NextWindow]_vars

\* ------------------------------------------------------------- properties
\* the record of identity n, when there is one
Has(n) == FindOne(players, n) # <<>>
RecordOf(n) == FindOne(players, n)[1]

Answered(op) == lastResp.op = op /\ lastResp.status = 200

\* C1: once every submission in progress has finished, the stored level of
\* an identity is the highest level submitted for it and its play count is
\* the number of its submissions, however their database calls interleaved:
\* no submission is lost.
NoLostSubmission ==
  AllIdle =>
    \A n \in Names :
      submitted[n].n > 0 =>
        /\ Has(n)
        /\ RecordOf(n).level = submitted[n].max
        /\ RecordOf(n).gamesPlayed = submitted[n].n

\* C2: no step lowers the stored level of a record.
LevelNeverDecreases ==
  [][\A i \in Indexes(players) :
       i \in Indexes(players') => players'[i].level >= players[i].level]_vars

\* C3: with one submission at a time, after every accepted submission the
\* stored level of an identity is the highest level submitted for it so far.
MaxWins ==
  AllIdle =>
    \A n \in Names :
      accepted[n].n > 0 => Has(n) /\ RecordOf(n).level = accepted[n].max

\* a submission below the stored level has been answered
MaxWinsWitness ==
  /\ AllIdle
  /\ Answered("submit")
  /\ ~lastResp.newRecord
  /\ lastResp.data.submittedLevel < lastResp.data.currentBest
  /\ RecordOf(lastResp.data.username).level = lastResp.data.currentBest

\* C4: with one submission at a time, the stored play count of an identity
\* is the number of its accepted submissions: 1 after the first, one more
\* after each later one, whether or not it raised the level.
PlayCountCounts ==
  AllIdle =>
    \A n \in Names :
      accepted[n].n > 0 => Has(n) /\ RecordOf(n).gamesPlayed = accepted[n].n

\* the third submission of an identity did not raise its level
PlayCountWitness ==
  /\ AllIdle
  /\ Answered("submit")
  /\ ~lastResp.newRecord
  /\ accepted[lastResp.data.username].n = 3
  /\ RecordOf(lastResp.data.username).gamesPlayed = 3

\* C5: a submission is answered with success when its write has been
\* applied, and with a failure only when no write has been applied.
AppliedOrFailed ==
  lastResp.op = "submit" => (lastResp.success <=> lastResp.applied)

\* C6: the total of a leaderboard response is the number of records of the
\* collection, not the length of the window.
TotalCountsTheStore ==
  Answered("leaderboard") => lastResp.total = Len(players)

\* C7: of two players listed at the same level, the one whose submission
\* brought that level first is listed first; stated for entries whose
\* lastUpdated differ, where the sort leaves no choice.
EarlierAchieverFirst ==
  Answered("leaderboard") =>
    \A i, j \in 1 .. Len(lastResp.data) :
      ( /\ lastResp.data[i].level = lastResp.data[j].level
        /\ lastResp.data[i].lastUpdated # lastResp.data[j].lastUpdated
        /\ accepted[lastResp.data[i].username].since
             < accepted[lastResp.data[j].username].since )
      => i < j

\* C8: a submission whose level is no integer in [1,1000] is answered 400
\* and writes nothing, and every stored level is an integer in [1,1000].
InvalidLevelRejected ==
  /\ (lastResp.op = "submit" /\ ~lastResp.body.levelOk)
       => (lastResp.status = 400 /\ ~lastResp.applied)
  /\ \A i \in Indexes(players) :
       /\ players[i].level % Scale = 0
       /\ players[i].level >= MinLevel * Scale
       /\ players[i].level <= MaxLevel * Scale

\* C9: a submission whose identity is missing, empty, empty once trimmed or
\* no string is answered 400, never 500, and writes nothing.
InvalidIdentityRejected ==
  (lastResp.op = "submit" /\ ~lastResp.body.identityOk)
    => (lastResp.status = 400 /\ ~lastResp.applied)

\* C10: with no write in progress, the top player of the statistics is the
\* identity at position 1 of the leaderboard; stated for collections where
\* the leaderboard's sort leaves no choice of that position.
TopPlayerHeadsLeaderboard ==
  LET heads == {docs[1].username : docs \in FindSorted(players)}
  IN (Answered("stats") /\ players # <<>> /\ Cardinality(heads) = 1)
       => lastResp.data.topPlayer \in {Str(h) : h \in heads}

\* C11: with one request at a time, the answer to a submission classifies
\* it against what was accepted before. For an identity not seen before it
\* reports a new record with the submitted level and play count 1; for a
\* level above the stored one, a new record with the level stored before as
\* previousBest; otherwise no new record, the unchanged stored level as
\* currentBest and the submitted level as submittedLevel. The play count it
\* reports is the one stored after the call.
SubmitClassified ==
  [][\A r \in Slots :
       ( /\ req[r].op = "submit" /\ req[r].pc = "count"
         /\ req'[r] = Idle
         /\ lastResp'.op = "submit" /\ lastResp'.status = 200 )
       => LET n == req[r].cleanUsername
              l == req[r].level
              before == accepted[n]
              stored == FindOne(players', n)
              d == lastResp'.data
          IN /\ stored # <<>>
             /\ d.username = n
             /\ d.gamesPlayed = stored[1].gamesPlayed
             /\ before.n = 0 =>
                  /\ lastResp'.newRecord
                  /\ "rank" \in DOMAIN d
                  /\ d.level = l /\ stored[1].level = l
                  /\ d.gamesPlayed = 1
             /\ (before.n > 0 /\ l > before.max) =>
                  /\ lastResp'.newRecord
                  /\ "previousBest" \in DOMAIN d
                  /\ d.previousBest = before.max
                  /\ d.level = l /\ stored[1].level = l
             /\ (before.n > 0 /\ l <= before.max) =>
                  /\ ~lastResp'.newRecord
                  /\ d.currentBest = before.max
                  /\ stored[1].level = before.max
                  /\ d.submittedLevel = l]_vars

\* a submission above the stored level has been answered
SubmitClassifiedWitness ==
  /\ AllIdle
  /\ Answered("submit")
  /\ lastResp.newRecord
  /\ "previousBest" \in DOMAIN lastResp.data
  /\ lastResp.data.previousBest < lastResp.data.level
  /\ RecordOf(lastResp.data.username).level = lastResp.data.level
  /\ RecordOf(lastResp.data.username).gamesPlayed = lastResp.data.gamesPlayed

\* the rank of identity n by the spec's measure: one more than the number
\* of records whose stored level is strictly higher
RankOf(n) ==
  1 + Cardinality({i \in Indexes(players) :
                     players[i].level > RecordOf(n).level})

\* the rank field of a submission's answer, whatever its branch calls it
RankReported(d) ==
  IF "rank" \in DOMAIN d THEN d.rank
  ELSE IF "newRank" \in DOMAIN d THEN d.newRank
  ELSE d.currentRank

\* C12: with one request at a time, the rank in the answer to a player
\* lookup and to a submission is one more than the number of records whose
\* level, after the operation, is strictly higher than the player's, so
\* players of equal level have equal rank; and the top-20 flag is set
\* exactly when that rank is at most 20, for every count of higher players
\* up to MaxAbove.
RankCountsHigherLevels ==
  /\ (AllIdle /\ Answered("player") /\ lastResp.found) =>
       LET d == lastResp.data
       IN /\ Has(d.username)
          /\ d.rank = <<RankOf(d.username)>>
          /\ d.isInTop20 <=> (RankOf(d.username) <= Top20)
          /\ \A m \in Names :
               (Has(m) /\ RecordOf(m).level = d.level) => d.rank = <<RankOf(m)>>
  /\ (AllIdle /\ Answered("submit")) =>
       LET d == lastResp.data
       IN /\ Has(d.username)
          /\ RankReported(d) = RankOf(d.username)
          /\ d.isInTop20 <=> (RankOf(d.username) <= Top20)
          /\ \A m \in Names :
               (Has(m) /\ RecordOf(m).level = RecordOf(d.username).level)
                 => RankReported(d) = RankOf(m)
  /\ \A r \in Slots :
       /\ (req[r].op = "player" /\ req[r].pc = "count") =>
            \A k \in 0 .. MaxAbove :
              LET d == PlayerResponse(req[r].player, k).data
              IN d.rank = <<k + 1>> /\ (d.isInTop20 <=> (k + 1 <= Top20))
       /\ (req[r].op = "submit" /\ req[r].pc = "count") =>
            \A k \in 0 .. MaxAbove :
              LET d == SubmitResponse(req[r], k).data
              IN /\ RankReported(d) = k + 1
                 /\ d.isInTop20 <=> (k + 1 <= Top20)

\* a lookup has answered rank 2 for a player below another
RankWitness ==
  /\ AllIdle
  /\ Answered("player") /\ lastResp.found
  /\ lastResp.data.rank = <<2>>
  /\ \E m \in Names :
       Has(m) /\ RecordOf(m).level > lastResp.data.level

\* C13: the entries of a leaderboard response come by level, highest
\* first, and among equal levels by lastUpdated, earliest first; the entry
\* at position i has rank i and is a record of the collection; at least
\* i - 1 other records have a level no lower than its own, and one more
\* than the number of records of strictly higher level is at most i.
LeaderboardIsSorted ==
  Answered("leaderboard") =>
    LET e == lastResp.data
    IN /\ \A i \in 1 .. Len(e) :
            /\ e[i].rank = i
            /\ \E k \in Indexes(players) :
                 /\ players[k].username = e[i].username
                 /\ players[k].level = e[i].level
                 /\ players[k].lastUpdated = e[i].lastUpdated
            /\ Cardinality({k \in Indexes(players) :
                              /\ players[k].username # e[i].username
                              /\ players[k].level >= e[i].level}) >= i - 1
            /\ 1 + Cardinality({k \in Indexes(players) :
                                  players[k].level > e[i].level}) <= i
       /\ \A i, j \in 1 .. Len(e) :
            i < j =>
              \/ e[i].level > e[j].level
              \/ e[i].level = e[j].level
                   /\ e[i].lastUpdated <= e[j].lastUpdated

\* a leaderboard of two players of the same level, updated at different
\* times
LeaderboardWitness ==
  /\ Answered("leaderboard")
  /\ Len(lastResp.data) = 2
  /\ lastResp.data[1].level = lastResp.data[2].level
  /\ lastResp.data[1].lastUpdated < lastResp.data[2].lastUpdated

\* C14: a leaderboard response never holds more than 50 entries, whatever
\* limit is requested; for a requested limit from 1 to 50 it holds the
\* smaller of that limit and the number of records, and with no limit
\* given the smaller of 20 and the number of records.
WindowIsCapped ==
  [][\A x \in LimitInputs :
       GetLeaderboard(x) =>
         LET n == Len(lastResp'.data)
             asked == ParseInt(x)
         IN /\ n <= LimitCap
            /\ (~asked.nan /\ asked.n >= 1 /\ asked.n <= LimitCap)
                 => n = Min(asked.n, Len(players))
            /\ x = Undefined => n = Min(DefaultLimit, Len(players))]_vars

\* C15: with one request at a time, the write of a submission whose level
\* is not above the stored one leaves the stored level as it is, adds
\* exactly 1 to the play count, and stores the supplied picture when it is
\* a non-empty string and leaves the stored picture as it is otherwise; so
\* repeating such a submission never changes the level.
NonImprovingKeepsLevel ==
  [][\A r \in Slots :
       ( /\ req[r].op = "submit" /\ req[r].pc = "write"
         /\ req'[r] # req[r]
         /\ Has(req[r].cleanUsername)
         /\ req[r].level <= RecordOf(req[r].cleanUsername).level )
       => LET n == req[r].cleanUsername
              old == RecordOf(n)
              new == FindOne(players', n)
              pic == req[r].profilePicture
          IN /\ req'[r].pc = "count"
             /\ Len(players') = Len(players)
             /\ new # <<>>
             /\ new[1].level = old.level
             /\ new[1].gamesPlayed = old.gamesPlayed + 1
             /\ new[1].profilePicture =
                  IF pic.t = "string" /\ pic.s # <<>> THEN pic
                  ELSE old.profilePicture]_vars

\* a submission at the stored level, with an empty picture, has been
\* written: the picture stored before is still there
NonImprovingWitness ==
  \E r \in Slots :
    /\ req[r].op = "submit" /\ req[r].pc = "count"
    /\ req[r].existingPlayer # <<>>
    /\ req[r].level = req[r].existingPlayer[1].level
    /\ req[r].profilePicture = Str(<<>>)
    /\ req[r].existingPlayer[1].profilePicture = Str(<<"p">>)
    /\ RecordOf(req[r].cleanUsername).profilePicture = Str(<<"p">>)
    /\ RecordOf(req[r].cleanUsername).level = req[r].level
    /\ RecordOf(req[r].cleanUsername).gamesPlayed = 2

StatsDescribeStore ==
  /\ (AllIdle /\ Answered("stats")) =>
       LET d == lastResp.data
       IN /\ d.totalPlayers = Len(players)
          /\ d.competitorsInTop20 =
               (IF Len(players) < Top20 THEN Len(players) ELSE Top20)
          /\ IF players = <<>>
             THEN /\ d.totalPlayers = 0
                  /\ d.highestLevel = 0
                  /\ d.topPlayer = Null
                  /\ d.averageLevel = 0
                  /\ d.competitorsInTop20 = 0
             ELSE /\ \A i \in Indexes(players) :
                       players[i].level <= d.highestLevel
                  /\ \E i \in Indexes(players) :
                       /\ players[i].level = d.highestLevel
                       /\ d.topPlayer = Str(players[i].username)
  /\ \A r \in Slots :
       req[r].op = "stats" =>
         \A k \in 0 .. MaxAbove :
           LET d == StatsResponse([req[r] EXCEPT !.totalPlayers = k]).data
           IN /\ d.totalPlayers = k
              /\ d.competitorsInTop20 = (IF k < Top20 THEN k ELSE Top20)

\* the statistics of a collection of two players of different levels
StatsWitness ==
  /\ AllIdle
  /\ Answered("stats")
  /\ lastResp.data.totalPlayers = 2
  /\ \E i \in Indexes(players) :
       players[i].level < lastResp.data.highestLevel

\* C18: in every interleaving of the handlers, a lookup of an identity
\* that has no record when findOne runs is answered with success, level 0,
\* rank null, isInTop20 false and play count 0, and leaves the collection
\* as it was: no record is created.
UnknownPlayerIsZero ==
  [][\A u \in PlayerInputs :
       ((\E r \in Slots : PlayerFindOne(r, u)) /\ ~Has(Trim(u)))
       => /\ players' = players
          /\ req' = req
          /\ lastResp'.op = "player"
          /\ lastResp'.status = 200
          /\ lastResp'.success
          /\ lastResp'.data.username = Trim(u)
          /\ lastResp'.data.level = 0
          /\ lastResp'.data.rank = <<>>
          /\ lastResp'.data.isInTop20 = FALSE
          /\ lastResp'.data.gamesPlayed = 0]_vars

\* a lookup of an unknown identity has been answered while another
\* identity has a record
UnknownPlayerWitness ==
  /\ Answered("player")
  /\ ~lastResp.found
  /\ players # <<>>
  /\ ~Has(lastResp.data.username)
  /\ lastResp.data.level = 0

\* C19: in every interleaving of the handlers, no step removes a record or
\* changes the identity of one; a record is created or changed only by the
\* write of a submission for its own identity, which leaves every other
\* record as it was; and the steps of GetLeaderboard, GetPlayer and GetStats
\* leave the whole collection as it was.
OnlyOwnSubmissionWrites ==
  [][/\ Len(players') >= Len(players)
     /\ \A i \in Indexes(players) :
          players'[i].username = players[i].username
     /\ \A i \in Indexes(players') :
          (i > Len(players) \/ players'[i] # players[i]) =>
            \E r \in Slots :
              /\ req[r].op = "submit" /\ req[r].pc = "write"
              /\ req'[r] # req[r]
              /\ req[r].cleanUsername = players'[i].username
     /\ (\A r \in Slots : req[r].op = "submit" => req'[r] = req[r])
          => players' = players]_vars

\* the first submission of player b has been written while a lookup or
\* the statistics are in progress, and the record of player a is as it was
OwnWriteWitness ==
  /\ Has(<<"a">>) /\ Has(<<"b">>)
  /\ RecordOf(<<"a">>) = Doc(<<"a">>, MinLevel * Scale, Null, 1, 1)
  /\ \E r, q \in Slots :
       /\ req[r].op = "submit" /\ req[r].pc = "count"
       /\ req[r].cleanUsername = <<"b">>
       /\ req[r].existingPlayer = <<>>
       /\ req[q].op \in {"player", "stats"}

====
